---- MODULE Spec2Model ----
(***************************************************************************)
(* A model of the Paxos library of boost PSMR/bpv3/paxos/paxos.go: a fixed *)
(* set of peers, each holding a table of instances and an array of done    *)
(* watermarks; one proposer goroutine per Start call; the three handlers   *)
(* AcceptPrepare, AcceptCommit and AcceptDecided; Done and Min.            *)
(***************************************************************************)
EXTENDS Integers, FiniteSets, Sequences, TLC

\* ------------------------------------------------------------------ bounds

\* Sequence numbers are 0..MaxSeq.
MaxSeq == 1
\* The clock reads 1..MaxStamp.
MaxStamp == 2
\* The calls an unreliable network fails.
MaxLost == 2
\* Requests whose caller gave up and that are still to be served.
MaxOrphans == 1

\* ------------------------------------------------------- program constants

ErrOK == "ErrOK"
ErrNetwork == "ErrNetwork"
ErrRejected == "ErrRejected"

StateUndecided == "StateUndecided"
StateDecided == "StateDecided"

\* ans := 0x7fffffff in Min.
IntMax == 2147483647

\* ---------------------------------------------------------------- domains

\* interface{}(nil)
Nil == "nil"
\* The values the application proposes.
Values == {"p", "q"}
Seqs == 0 .. MaxSeq
\* The proposer goroutines, one per Start call.
Procs == {1, 2, 3}

VARIABLES
    peers,      \* px.peers, as the set of indices 1..len(peers)
    down,       \* the peers no call reaches
    instance,   \* instance[i][s]: px.instance[s] of peer i, or Absent
    done,       \* done[i][j]: px.done[j] of peer i
    prop,       \* prop[k]: the goroutine of the k-th Start call
    now,        \* the last reading of the clock, 0 before the first
    orphans,    \* requests served after their call() has returned false
    hist,       \* ghost: <<i, s, v>> for every (true, v) Status(s) had at i
    zmax,       \* ghost: zmax[i] the highest argument of Done at i, or -1
    heard,      \* ghost: the peers that have served an AcceptDecided
    lost,       \* the calls the network has failed so far
    tick,       \* the least the clock advances between two readings: 0 or 1
    forgot,     \* ghost: forgot[i][s] the highest platest of an entry for s
                \* that Min has deleted at peer i, or 0
    acks        \* ghost: <<i, s, v, t>> for every AcceptCommit(s, v, t) that
                \* peer i has answered ErrOK

vars == <<peers, down, instance, done, prop, now, orphans, hist, zmax, heard, lost, tick, forgot, acks>>

\* -------------------------------------------------------------- PaxosInst

\* A key that px.instance does not hold.
Absent == [status |-> "Absent", value |-> Nil, platest |-> 0, alatest |-> 0]

PaxosInst(st, v, p, a) == [status |-> st, value |-> v, platest |-> p, alatest |-> a]

\* ---------------------------------------------------------------- handlers

\* AcceptPrepare on the entry inst of px.instance: the entry afterwards and
\* the response.
AcceptPrepareAny(inst, stamp) ==
    LET new == IF inst = Absent
                 THEN PaxosInst(StateUndecided, Nil, stamp, 0)
                 ELSE [inst EXCEPT !.platest = stamp]
    IN  [inst |-> new, code |-> ErrOK, value |-> new.value, stamp |-> new.alatest]

AcceptPrepare(inst, stamp) ==
    LET new == IF inst = Absent
                 THEN PaxosInst(StateUndecided, Nil, stamp, 0)
               ELSE IF inst.platest <= stamp
                 THEN [inst EXCEPT !.platest = stamp]
               ELSE inst
        code == IF inst = Absent \/ inst.platest <= stamp THEN ErrOK ELSE ErrRejected
    IN  [inst |-> new, code |-> code, value |-> new.value, stamp |-> new.alatest]

\* AcceptCommit on the entry inst: the entry afterwards and the response.
AcceptCommitEager(inst, value, stamp) ==
    IF inst = Absent
      THEN [inst |-> PaxosInst(StateUndecided, value, stamp, 0), code |-> ErrOK]
    ELSE IF inst.platest <= stamp
      THEN [inst |-> [inst EXCEPT !.alatest = stamp, !.value = value, !.platest = stamp],
            code |-> ErrOK]
    ELSE [inst |-> [inst EXCEPT !.value = value], code |-> ErrRejected]

AcceptCommit(inst, value, stamp) ==
    IF inst = Absent
      THEN [inst |-> PaxosInst(StateUndecided, value, stamp, 0), code |-> ErrOK]
    ELSE IF inst.platest <= stamp
      THEN [inst |-> [inst EXCEPT !.alatest = stamp, !.value = value, !.platest = stamp],
            code |-> ErrOK]
    ELSE [inst |-> inst, code |-> ErrRejected]

\* AcceptDecided on the entry inst: the entry afterwards.
AcceptDecided(inst, value) ==
    IF inst = Absent
      THEN PaxosInst(StateDecided, value, 0, 0)
      ELSE [inst EXCEPT !.status = StateDecided, !.value = value]

\* ----------------------------------------------------------------- quorum

\* agreed <= len(px.peers)/2 fails the round; Majority is its negation.
MajorityHalf(count, n) == ~(count < n \div 2)

MajorityAll(count, n) == ~(count <= n \div 2 + 1)

Majority(count, n) == ~(count <= n \div 2)

\* -------------------------------------------------------------- Min, Status

RECURSIVE MinFold(_, _, _)
\* for _, d := range px.done { if ans > d { ans = d } }, over the indices js.
MinFold(d, js, ans) ==
    IF js = {} THEN ans
    ELSE LET j == CHOOSE x \in js : TRUE
         IN  MinFold(d, js \ {j}, IF ans > d[j] THEN d[j] ELSE ans)

\* ans of Min before its return: the least entry of the done array d.
MinAnsFlipped(d) ==
    LET m == CHOOSE x \in {d[j] : j \in DOMAIN d} : \A j \in DOMAIN d : d[j] <= x IN m

MinAns(d) ==
    IF DOMAIN d = {} THEN 0 ELSE MinFold(d, DOMAIN d, IntMax)

\* The table of a peer after Min's loop of deletes.
EvictAny(tbl, ans) ==
    [s \in Seqs |-> IF s < ans THEN Absent ELSE tbl[s]]

Evict(tbl, ans) ==
    [s \in Seqs |->
        IF s < ans /\ tbl[s].status = StateDecided THEN Absent ELSE tbl[s]]

\* The ghost forgot after Min's loop of deletes at peer i, where it leaves
\* the table new.
Forget(i, new) ==
    [forgot EXCEPT ![i] =
        [s \in Seqs |-> IF instance[i][s] # Absent /\ new[s] = Absent
                                /\ instance[i][s].platest > @[s]
                          THEN instance[i][s].platest ELSE @[s]]]

\* What Min() returns at peer i.
MinRet(i) == MinAns(done[i]) + 1

\* Status(s) at peer i, on the tables tbl.
Status(tbl, i, s) ==
    IF tbl[i][s] # Absent /\ tbl[i][s].status = StateDecided
      THEN <<TRUE, tbl[i][s].value>>
      ELSE <<FALSE, Nil>>

\* The ghost hist after a step that leaves the tables tbl.
Observe(tbl) ==
    hist \cup {<<x[1], x[2], Status(tbl, x[1], x[2])[2]>> :
                 x \in {y \in peers \X Seqs : Status(tbl, y[1], y[2])[1]}}

\* ---------------------------------------------------------------- proposers

\* A Start call not made yet: Start(seq, arg) at peer me.
Idle(me, seq, arg) ==
    [pc |-> "idle", me |-> me, seq |-> seq, arg |-> arg, v |-> arg, t |-> 0,
     todo |-> {}, agreed |-> 0, highest |-> 0, nvs |-> {}, fly |-> {}]

\* A Start call the application never makes.
Off == [Idle(0, 0, Nil) EXCEPT !.pc = "off"]

\* The requests of proposer p's broadcast that are still to be answered.
Pending(p) ==
    IF p.pc \in {"prepare", "commit"} THEN p.todo
    ELSE IF p.pc = "decide" THEN {m[1] : m \in p.fly}
    ELSE {}

\* The watermark the DecideReq in flight to peer i carries.
FlyDone(p, i) == (CHOOSE m \in p.fly : m[1] = i)[2]

\* The request proposer p has sent to peer i.
Req(p, i) ==
    [kind |-> p.pc, to |-> i, seq |-> p.seq, v |-> IF p.pc = "prepare" THEN Nil ELSE p.v,
     t |-> IF p.pc = "decide" THEN 0 ELSE p.t, svrid |-> IF p.pc = "decide" THEN p.me ELSE 0,
     done |-> IF p.pc = "decide" THEN FlyDone(p, i) ELSE 0]

\* Proposer p after its call to peer i is over and left nothing to count:
\* rsp.Code = ErrNetwork, or any DecideRsp.
Answered(p, i) ==
    IF p.pc = "decide" THEN [p EXCEPT !.fly = {m \in @ : m[1] # i}]
    ELSE [p EXCEPT !.todo = @ \ {i}]

\* sendPrepare's loop over the channel, for the one response r. The channel
\* hands the responses over in any order, so nvs collects the values of all
\* responses that carry the highest stamp: any of them can be the first.
FoldPrepare(p, i, r) ==
    IF r.code # ErrOK THEN Answered(p, i)
    ELSE [Answered(p, i) EXCEPT
            !.agreed = @ + 1,
            !.highest = IF r.stamp > @ THEN r.stamp ELSE @,
            !.nvs = IF r.stamp > p.highest THEN {r.value}
                    ELSE IF r.stamp = p.highest /\ r.stamp > 0 THEN @ \cup {r.value}
                    ELSE @]

\* sendCommit's loop over the channel, for the one response code.
FoldCommit(p, i, code) ==
    IF code # ErrOK THEN Answered(p, i)
    ELSE [Answered(p, i) EXCEPT !.agreed = @ + 1]

\* The value a proposer with a majority of the Prepare phase sends with
\* AcceptCommit: else if nv != nil { v = nv }.
AdoptNil(v, nv) == nv

Adopt(v, nv) == IF nv # Nil THEN nv ELSE v

\* ------------------------------------------------------------------ actions

\* Start(seq, v) at peer me: Min(), with its deletes, and the go statement.
Start(k) ==
    /\ prop[k].pc = "idle"
    /\ LET me == prop[k].me
           ans == MinAns(done[me])
           tbl == [instance EXCEPT ![me] = Evict(@, ans)]
       IN  /\ instance' = tbl
           /\ hist' = Observe(tbl)
           /\ forgot' = Forget(me, tbl[me])
           /\ UNCHANGED acks
           /\ prop' = [prop EXCEPT ![k].pc =
                          IF prop[k].seq < ans + 1 THEN "returned" ELSE "loop"]
    /\ UNCHANGED <<peers, down, done, now, orphans, zmax, heard, lost, tick>>

\* sendPrepare up to its loop over the channel: the clock is read and one
\* goroutine per peer is started. All peers dial unix sockets of one host, so
\* they read one clock, which does not go back; with tick = 0 two readings
\* can be the same.
SendPrepare(k) ==
    /\ prop[k].pc = "loop"
    /\ \E t \in (IF now = 0 THEN 1 ELSE now + tick) .. MaxStamp :
          /\ now' = t
          /\ prop' = [prop EXCEPT ![k] =
                        [@ EXCEPT !.pc = "prepare", !.t = t, !.todo = peers,
                                  !.agreed = 0, !.highest = 0, !.nvs = {}]]
    /\ UNCHANGED <<acks, forgot, peers, down, instance, done, orphans, hist, zmax, heard, lost, tick>>

\* One goroutine of sendPrepare: peer i serves AcceptPrepare and the response
\* reaches the channel.
PrepareCall(k, i) ==
    /\ prop[k].pc = "prepare"
    /\ i \in prop[k].todo
    /\ i = prop[k].me \/ i \notin down
    /\ LET r == AcceptPrepare(instance[i][prop[k].seq], prop[k].t)
           tbl == [instance EXCEPT ![i][prop[k].seq] = r.inst]
       IN  /\ instance' = tbl
           /\ hist' = Observe(tbl)
           /\ prop' = [prop EXCEPT ![k] = FoldPrepare(@, i, r)]
    /\ UNCHANGED <<acks, forgot, peers, down, done, now, orphans, zmax, heard, lost, tick>>

\* The end of sendPrepare and Start's use of its result: continue, or adopt
\* nv and start the goroutines of sendCommit.
EndPrepare(k) ==
    /\ prop[k].pc = "prepare"
    /\ prop[k].todo = {}
    /\ IF ~Majority(prop[k].agreed, Cardinality(peers))
         THEN prop' = [prop EXCEPT ![k] =
                         [@ EXCEPT !.pc = "loop", !.t = 0, !.agreed = 0,
                                   !.highest = 0, !.nvs = {}]]
         ELSE \E nv \in (IF prop[k].nvs = {} THEN {Nil} ELSE prop[k].nvs) :
                prop' = [prop EXCEPT ![k] =
                           [@ EXCEPT !.pc = "commit", !.todo = peers, !.agreed = 0,
                                     !.highest = 0, !.nvs = {},
                                     !.v = Adopt(@, nv)]]
    /\ UNCHANGED <<acks, forgot, peers, down, instance, done, now, orphans, hist, zmax, heard, lost, tick>>

\* The ghost acks after peer i has answered AcceptCommit(seq, v, t) by code.
Ack(i, seq, v, t, code) ==
    IF code = ErrOK THEN acks \cup {<<i, seq, v, t>>} ELSE acks

\* One goroutine of sendCommit: peer i serves AcceptCommit and the response
\* reaches the channel.
CommitCall(k, i) ==
    /\ prop[k].pc = "commit"
    /\ i \in prop[k].todo
    /\ i = prop[k].me \/ i \notin down
    /\ LET r == AcceptCommit(instance[i][prop[k].seq], prop[k].v, prop[k].t)
           tbl == [instance EXCEPT ![i][prop[k].seq] = r.inst]
       IN  /\ instance' = tbl
           /\ hist' = Observe(tbl)
           /\ prop' = [prop EXCEPT ![k] = FoldCommit(@, i, r.code)]
           /\ acks' = Ack(i, prop[k].seq, prop[k].v, prop[k].t, r.code)
    /\ UNCHANGED <<forgot, peers, down, done, now, orphans, zmax, heard, lost, tick>>

\* The end of sendCommit and Start's use of its result: continue, or start the
\* goroutines of sendDecision.
EndCommitReset(k) ==
    /\ prop[k].pc = "commit"
    /\ prop[k].todo = {}
    /\ prop' = [prop EXCEPT ![k] =
                  IF ~Majority(prop[k].agreed, Cardinality(peers))
                    THEN [@ EXCEPT !.pc = "loop", !.t = 0, !.agreed = 0, !.v = prop[k].arg]
                    ELSE [@ EXCEPT !.pc = "decide", !.agreed = 0,
                                   !.todo = peers, !.fly = {}]]
    /\ UNCHANGED <<acks, forgot, peers, down, instance, done, now, orphans, hist, zmax, heard, lost, tick>>

EndCommit(k) ==
    /\ prop[k].pc = "commit"
    /\ prop[k].todo = {}
    /\ prop' = [prop EXCEPT ![k] =
                  IF ~Majority(prop[k].agreed, Cardinality(peers))
                    THEN [@ EXCEPT !.pc = "loop", !.t = 0, !.agreed = 0]
                    ELSE [@ EXCEPT !.pc = "decide", !.agreed = 0,
                                   !.todo = peers, !.fly = {}]]
    /\ UNCHANGED <<acks, forgot, peers, down, instance, done, now, orphans, hist, zmax, heard, lost, tick>>

\* One goroutine of sendDecision builds its DecideReq: px.done[px.me] is read
\* here, outside the lock.
SendDecide(k, i) ==
    /\ prop[k].pc = "decide"
    /\ i \in prop[k].todo
    /\ prop' = [prop EXCEPT ![k] =
                  [@ EXCEPT !.todo = @ \ {i},
                            !.fly = @ \cup {<<i, done[prop[k].me][prop[k].me]>>}]]
    /\ UNCHANGED <<acks, forgot, peers, down, instance, done, now, orphans, hist, zmax, heard, lost, tick>>

\* The state a peer is left in by AcceptDecided(seq, v, svrid, d) at peer i.
ServeDecided(i, seq, v, svrid, d) ==
    LET tbl == [instance EXCEPT ![i][seq] = AcceptDecided(@, v)]
    IN  /\ instance' = tbl
        /\ hist' = Observe(tbl)
        /\ done' = [done EXCEPT ![i][svrid] = d]
        /\ heard' = heard \cup {i}

\* Peer i serves the AcceptDecided of proposer k and the goroutine reports to
\* the channel.
DecideCall(k, i) ==
    /\ prop[k].pc = "decide"
    /\ i \in Pending(prop[k])
    /\ i = prop[k].me \/ i \notin down
    /\ ServeDecided(i, prop[k].seq, prop[k].v, prop[k].me, FlyDone(prop[k], i))
    /\ prop' = [prop EXCEPT ![k] = Answered(@, i)]
    /\ UNCHANGED <<acks, forgot, peers, down, now, orphans, zmax, lost, tick>>

\* The end of sendDecision: every goroutine has reported, Start's loop breaks.
EndDecide(k) ==
    /\ prop[k].pc = "decide"
    /\ prop[k].todo = {}
    /\ prop[k].fly = {}
    /\ prop' = [prop EXCEPT ![k].pc = "done"]
    /\ UNCHANGED <<acks, forgot, peers, down, instance, done, now, orphans, hist, zmax, heard, lost, tick>>

\* call() to a peer that is down returns false.
Unreachable(k, i) ==
    /\ i \in Pending(prop[k])
    /\ i # prop[k].me
    /\ i \in down
    /\ prop' = [prop EXCEPT ![k] = Answered(@, i)]
    /\ UNCHANGED <<acks, forgot, peers, down, instance, done, now, orphans, hist, zmax, heard, lost, tick>>

\* The request is discarded (conn.Close() in Make's accept loop): call()
\* returns false and nothing is served.
LoseRequest(k, i) ==
    /\ i \in Pending(prop[k])
    /\ i # prop[k].me
    /\ lost < MaxLost
    /\ lost' = lost + 1
    /\ prop' = [prop EXCEPT ![k] = Answered(@, i)]
    /\ UNCHANGED <<acks, forgot, peers, down, instance, done, now, orphans, hist, zmax, heard, tick>>

\* The reply is discarded (SHUT_WR in Make's accept loop): call() returns
\* false and the request is served by its own goroutine, now or later.
LoseReply(k, i) ==
    /\ i \in Pending(prop[k])
    /\ i # prop[k].me
    /\ lost < MaxLost
    /\ Cardinality(orphans) < MaxOrphans
    /\ lost' = lost + 1
    /\ orphans' = orphans \cup {Req(prop[k], i)}
    /\ prop' = [prop EXCEPT ![k] = Answered(@, i)]
    /\ UNCHANGED <<acks, forgot, peers, down, instance, done, now, hist, zmax, heard, tick>>

\* A request whose reply was discarded is served.
ServeOrphan(m) ==
    /\ m \in orphans
    /\ orphans' = orphans \ {m}
    /\ IF m.kind = "decide"
         THEN ServeDecided(m.to, m.seq, m.v, m.svrid, m.done) /\ UNCHANGED acks
         ELSE LET r == IF m.kind = "prepare"
                         THEN AcceptPrepare(instance[m.to][m.seq], m.t)
                         ELSE AcceptCommit(instance[m.to][m.seq], m.v, m.t)
                  tbl == [instance EXCEPT ![m.to][m.seq] = r.inst]
              IN  /\ instance' = tbl
                  /\ hist' = Observe(tbl)
                  /\ acks' = IF m.kind = "commit"
                               THEN Ack(m.to, m.seq, m.v, m.t, r.code) ELSE acks
                  /\ UNCHANGED <<done, heard>>
    /\ UNCHANGED <<forgot, peers, down, prop, now, zmax, lost, tick>>

\* Done(seq) at peer i.
Done(i, seq) ==
    /\ done' = IF seq >= done[i][i] THEN [done EXCEPT ![i][i] = seq] ELSE done
    /\ zmax' = [zmax EXCEPT ![i] = IF seq > @ THEN seq ELSE @]
    /\ UNCHANGED <<acks, forgot, peers, down, instance, prop, now, orphans, hist, heard, lost, tick>>

\* Min() at peer i.
Min(i) ==
    /\ LET tbl == [instance EXCEPT ![i] = Evict(@, MinAns(done[i]))]
       IN  /\ instance' = tbl
           /\ hist' = Observe(tbl)
           /\ forgot' = Forget(i, tbl[i])
           /\ UNCHANGED acks
    /\ UNCHANGED <<peers, down, done, prop, now, orphans, zmax, heard, lost, tick>>

\* --------------------------------------------------------- specifications

\* Make(peers, me) at each of n peers, of which the peers D are down, before
\* the Start calls P, with a clock of granularity g.
Make(n, D, P, g) ==
    /\ peers = 1 .. n
    /\ down = D
    /\ instance = [i \in 1 .. n |-> [s \in Seqs |-> Absent]]
    /\ done = [i \in 1 .. n |-> [j \in 1 .. n |-> -1]]
    /\ prop = P
    /\ now = 0
    /\ orphans = {}
    /\ hist = {}
    /\ zmax = [i \in 1 .. n |-> -1]
    /\ heard = {}
    /\ lost = 0
    /\ tick = g
    /\ forgot = [i \in 1 .. n |-> [s \in Seqs |-> 0]]
    /\ acks = {}

\* The steps of the proposers over a network that loses nothing.
Protocol ==
    \/ \E k \in Procs : Start(k)
    \/ \E k \in Procs : SendPrepare(k)
    \/ \E k \in Procs, i \in peers : PrepareCall(k, i)
    \/ \E k \in Procs : EndPrepare(k)
    \/ \E k \in Procs, i \in peers : CommitCall(k, i)
    \/ \E k \in Procs : EndCommit(k)
    \/ \E k \in Procs, i \in peers : SendDecide(k, i)
    \/ \E k \in Procs, i \in peers : DecideCall(k, i)
    \/ \E k \in Procs : EndDecide(k)

\* The losses of an unreliable network.
Lossy ==
    \/ \E k \in Procs, i \in peers : LoseRequest(k, i)
    \/ \E k \in Procs, i \in peers : LoseReply(k, i)
    \/ \E m \in orphans : ServeOrphan(m)

\* Calls to the peers that are down.
Partition == \E k \in Procs, i \in peers : Unreachable(k, i)

\* The application's calls of Done and Min.
Application ==
    \/ \E i \in peers, s \in Seqs : Done(i, s)
    \/ \E i \in peers : Min(i)

\* The third Start call is made in SpecWM only.

\* Three peers and two Start calls, for one sequence number or for two, on a
\* network that loses requests and replies; every reading of the clock is a
\* new value.
Init ==
    \E s \in Seqs :
        Make(3, {}, [k \in Procs |-> IF k = 1 THEN Idle(1, 0, "p")
                          ELSE IF k = 2 THEN Idle(2, s, "q") ELSE Off], 1)

Next == Protocol \/ Lossy

Spec == Init /\ [][Next]_vars

\* Three peers, all reachable, and two Start calls at different peers for one
\* sequence number, on a network that loses nothing; two readings of the clock
\* can be the same.
InitTie ==
    \E s \in Seqs :
        Make(3, {}, [k \in Procs |-> IF k = 1 THEN Idle(1, s, "p")
                          ELSE IF k = 2 THEN Idle(2, s, "q") ELSE Off], 0)

NextTie == Protocol

SpecTie == InitTie /\ [][NextTie]_vars

\* Three peers, some of them down, and one Start call at a peer that is up, on
\* a network that loses nothing between the peers that are up. Every goroutine
\* that can run does run, and every call returns.
InitDown ==
    \E D \in SUBSET (1 .. 3), g \in {0, 1} :
        \E me \in (1 .. 3) \ D, s \in Seqs, v \in Values :
            Make(3, D, [k \in Procs |-> IF k = 1 THEN Idle(me, s, v) ELSE Off], g)

NextDown == Protocol \/ Partition

SpecDown == InitDown /\ [][NextDown]_vars /\ WF_vars(NextDown)

\* Two peers, both reachable, the application's Done and Min calls, and two
\* Start calls, one for the lowest and one for the highest sequence number,
\* at the same peer or at different peers, on a network that loses nothing.
InitGC ==
    \E me \in {1, 2} :
        Make(2, {}, [k \in Procs |-> IF k = 1 THEN Idle(1, 0, "p")
                          ELSE IF k = 2 THEN Idle(me, MaxSeq, "q") ELSE Off], 1)

NextGC == Protocol \/ Application

SpecGC == InitGC /\ [][NextGC]_vars

\* Two peers, both reachable, the application's Done and Min calls, and two
\* Start calls for one sequence number at different peers, on a network that
\* loses nothing; every reading of the clock is a new value.
InitStale ==
    Make(2, {}, [k \in Procs |-> IF k = 1 THEN Idle(1, 0, "p")
                                 ELSE IF k = 2 THEN Idle(2, 0, "q") ELSE Off], 1)

NextStale == Protocol \/ Application

SpecStale == InitStale /\ [][NextStale]_vars

\* The goroutine of Start(seq, arg) at peer me when sendCommit has returned
\* true for the value v and the stamp t and sendDecision has started its
\* goroutines; if early, the self-addressed one has built its DecideReq
\* already, while px.done[px.me] was -1.
Chosen(me, seq, arg, v, t, early) ==
    [Idle(me, seq, arg) EXCEPT
        !.pc = "decide", !.v = v, !.t = t,
        !.todo = IF early THEN (1 .. 3) \ {me} ELSE 1 .. 3,
        !.fly = IF early THEN {<<me, -1>>} ELSE {}]

\* Three peers, all reachable, on a network that loses nothing, after
\* Start(0, "p") at peer 1, Start(MaxSeq, "q") at peer 2 and Start(0, "q") at
\* peer 3 have gathered their Accept majorities one after the other (the
\* third adopted "p"), some of the self-addressed goroutines of sendDecision
\* have built their requests, and then every peer has called Done(MaxSeq).
InitWM ==
    \E S \in SUBSET (1 .. 3) :
        /\ peers = 1 .. 3
        /\ down = {}
        /\ instance = [i \in 1 .. 3 |->
                          [s \in Seqs |->
                              IF s = 0 THEN PaxosInst(StateUndecided, "p", 2, 2)
                              ELSE IF s = MaxSeq THEN PaxosInst(StateUndecided, "q", 1, 1)
                              ELSE Absent]]
        /\ done = [i \in 1 .. 3 |-> [j \in 1 .. 3 |-> IF i = j THEN MaxSeq ELSE -1]]
        /\ prop = [k \in Procs |->
                      IF k = 1 THEN Chosen(1, 0, "p", "p", 1, k \in S)
                      ELSE IF k = 2 THEN Chosen(2, MaxSeq, "q", "q", 1, k \in S)
                      ELSE Chosen(3, 0, "q", "p", 2, k \in S)]
        /\ now = 2
        /\ orphans = {}
        /\ hist = {}
        /\ zmax = [i \in 1 .. 3 |-> MaxSeq]
        /\ heard = {}
        /\ lost = 0
        /\ tick = 0
        /\ forgot = [i \in 1 .. 3 |-> [s \in Seqs |-> 0]]
        /\ acks = UNION {{<<i, 0, "p", 1>>, <<i, MaxSeq, "q", 1>>, <<i, 0, "p", 2>>} :
                            i \in 1 .. 3}

\* The goroutines of sendDecision and the application's further Done calls.
NextWM ==
    \/ \E k \in Procs, i \in peers : SendDecide(k, i)
    \/ \E k \in Procs, i \in peers : DecideCall(k, i)
    \/ \E k \in Procs : EndDecide(k)
    \/ \E i \in peers : Done(i, MaxSeq)

SpecWM == InitWM /\ [][NextWM]_vars

\* ------------------------------------------------------------------ claims

\* The peers where Status(s) returns true now.
Deciders(s) == {i \in peers : Status(instance, i, s)[1]}

\* No two peers report different decided values for one sequence number now.
AgreeNow ==
    \A s \in Seqs : \A i \in Deciders(s), j \in Deciders(s) :
        instance[i][s].value = instance[j][s].value

\* C2. Safety without ballot uniqueness: all peers reachable, nothing lost,
\* two proposers at different peers for one sequence number that used the
\* same ballot: when both are through, no two peers are Decided on
\* different values.
C2_SameBallot ==
    \A k \in Procs, l \in Procs :
        ( /\ prop[k].pc = "done" /\ prop[l].pc = "done"
          /\ prop[k].me # prop[l].me
          /\ prop[k].seq = prop[l].seq
          /\ prop[k].t = prop[l].t ) => AgreeNow

\* C7. Two concurrent proposers at different peers for one sequence number,
\* all peers reachable: at no time does one peer report one of the two values
\* and another peer the other (the safety half of the claim; the claim adds
\* that every peer eventually reports the one value).
C7_NeverBoth == AgreeNow

\* The Start calls that have started a proposer.
Started == {k \in Procs : prop[k].pc \notin {"idle", "off", "returned"}}

\* C1. Agreement: whatever is lost or reordered, if Status(s) has returned
\* (true, v1) at one peer and (true, v2) at another, then v1 = v2.
C1_Agreement ==
    \A x \in hist, y \in hist : (x[1] # y[1] /\ x[2] = y[2]) => x[3] = y[3]

\* C3. A decided value is permanent at a peer: once Status(s) has returned
\* (true, v) at a peer, it never returns (true, w) with w # v at that peer.
C3_Permanent ==
    \A x \in hist, y \in hist : (x[1] = y[1] /\ x[2] = y[2]) => x[3] = y[3]

\* C4. Validity: whenever Status(s) returns (true, v) at a peer, v is the
\* argument of a Start(s, v) call made at some peer for that s.
C4_Validity ==
    \A x \in hist : \E k \in Started : prop[k].seq = x[2] /\ prop[k].arg = x[3]

\* Some peer reports a decided value while a proposer has finished with a
\* value it adopted in place of its own argument.
C4_Witness ==
    /\ \E i \in peers, s \in Seqs : Status(instance, i, s)[1]
    /\ \E k \in Started : prop[k].v # prop[k].arg /\ prop[k].pc = "done"

\* The peers calls reach.
Up == peers \ down

\* More than floor(N/2) of the peers are down.
MajorityDown == Cardinality(down) > Cardinality(peers) \div 2

\* C5. Quorum necessity: with more than floor(N/2) peers down no proposer
\* reaches the Decide broadcast and Status(s) is (false, nil) at every peer;
\* a failed call is no vote, and a round goes on to its next phase only with
\* an OK count strictly greater than N/2.
C5_QuorumNecessity ==
    /\ [](MajorityDown =>
            /\ \A k \in Procs : prop[k].pc \notin {"decide", "done"}
            /\ \A i \in peers, s \in Seqs : Status(instance, i, s) = <<FALSE, Nil>>)
    /\ [](\A k \in Started :
            prop[k].pc \in {"prepare", "commit"} =>
                prop[k].agreed <= Cardinality(Up \ prop[k].todo))
    /\ [][\A k \in Procs :
            ( \/ prop[k].pc = "prepare" /\ prop'[k].pc = "commit"
              \/ prop[k].pc = "commit" /\ prop'[k].pc = "decide" )
            => prop[k].agreed > Cardinality(peers) \div 2]_vars

\* Two of three peers are down and a proposer has heard from every peer in
\* its Prepare phase: its own peer's OK is the only vote.
C5_Witness ==
    /\ MajorityDown
    /\ \E k \in Started :
          prop[k].pc = "prepare" /\ prop[k].todo = {} /\ prop[k].agreed = 1

\* Proposer k is through and its argument is decided at every peer of P.
DecidedAt(k, P) ==
    /\ prop[k].pc = "done"
    /\ \A i \in P : Status(instance, i, prop[k].seq) = <<TRUE, prop[k].arg>>

\* C6. Liveness under majority: with at most floor(N/2) peers down, nothing
\* lost between the others and a single Start(s, v), the proposer eventually
\* leaves its loop, and Status(s) eventually returns (true, v) at its own peer
\* and at every peer that is up.
C6_Liveness ==
    \A k \in Procs :
        (~MajorityDown /\ prop[k].pc = "idle")
            ~> DecidedAt(k, Up \cup {prop[k].me})

\* One peer is down and the single proposer is through, its value decided at
\* the two peers that are up.
C6_Witness ==
    /\ Cardinality(down) = 1
    /\ \E k \in Procs : DecidedAt(k, Up \cup {prop[k].me})

\* C8. Min monotonicity: at every peer the values successive Min() calls
\* return never decrease, whatever Done calls are made and in whatever order
\* the Decide messages are delivered.
C8_MinMonotone == [][\A i \in peers : MinRet(i)' >= MinRet(i)]_vars

\* The least of the peers' own watermarks: zmax[i] is the highest argument
\* peer i has passed to Done, or -1.
LeastZ == CHOOSE m \in {zmax[i] : i \in peers} : \A i \in peers : m <= zmax[i]

\* C9 as stated. Min upper bound: at every peer Min() is at most
\* 1 + the least of the peers' own watermarks, and Min() is 0 at every peer
\* while any peer has never called Done or has never had a Decide delivered.
C9_AsStated ==
    \A q \in peers :
        /\ MinRet(q) <= 1 + LeastZ
        /\ (\E i \in peers : zmax[i] = -1 \/ i \notin heard) => MinRet(q) = 0

\* C9 as amended. At every peer Min() is at most 1 + the least of the peers'
\* own watermarks; Min() is 0 at every peer while any peer has never called
\* Done, and, with two peers or more, Min() is 0 at a peer that has never had
\* a Decide delivered.
C9_MinUpperBound ==
    \A q \in peers :
        /\ MinRet(q) <= 1 + LeastZ
        /\ (\E i \in peers : zmax[i] = -1) => MinRet(q) = 0
        /\ (Cardinality(peers) >= 2 /\ q \notin heard) => MinRet(q) = 0

\* Min() at some peer has advanced as far as the bound allows.
C9_Witness ==
    \E q \in peers : MinRet(q) > 0 /\ MinRet(q) = 1 + LeastZ

\* The entry for s leaves the table of peer i in this step.
Removed(i, s) == instance[i][s] # Absent /\ instance'[i][s] = Absent

MinReturns(i) == Min(i) \/ \E k \in Procs : prop[k].me = i /\ Start(k)

\* C11. Forgetting: when a call of Min() at a peer returns m, the table of
\* that peer holds no entry with a sequence number below m.
C11_Forgotten ==
    [][\A i \in peers :
          MinReturns(i) =>
              \A s \in Seqs : s < MinRet(i)' => instance'[i][s] = Absent]_vars

\* Every Decide of every proposer has been served at every peer other than
\* the proposer's own.
CrossDelivered ==
    \A k \in Procs :
        /\ prop[k].pc \in {"decide", "done"}
        /\ \A i \in peers \ {prop[k].me} : i \notin prop[k].todo \cup Pending(prop[k])

\* C12. Watermark propagation: three peers have each called Done(z), here
\* with z = MaxSeq; once each peer has then had a Decide of each other peer
\* delivered that was issued after the sender's Done(z), Min() returns z + 1
\* at every peer.
C12_Propagation ==
    CrossDelivered => \A i \in peers : MinRet(i) = MaxSeq + 1

\* Proposer k's Accept broadcast ends without a majority in this step.
AcceptFails(k) == prop[k].pc = "commit" /\ prop'[k].pc = "loop"

\* C13 as stated. Value reset on Accept-phase retry: when a proposer's Accept
\* broadcast fails to gather a majority, the next round starts with the
\* argument of Start as candidate, also when the proposer had adopted another
\* value in the Prepare phase.
C13_AsStated ==
    [][\A k \in Procs : AcceptFails(k) => prop'[k].v = prop[k].arg]_vars

\* C13 as amended. When a proposer's Accept broadcast fails to gather a
\* majority, the next round starts with the value that Accept broadcast
\* carried as candidate: the adopted value, if the proposer had adopted one.
C13_CandidateKept ==
    [][\A k \in Procs :
          /\ AcceptFails(k) => prop'[k].v = prop[k].v
          /\ (prop[k].pc = "loop" /\ prop'[k].pc = "prepare") => prop'[k].v = prop[k].v]_vars

\* A proposer that had adopted a value is back at the top of Start's loop
\* after an Accept broadcast without a majority, the adopted value its
\* candidate.
C13_Witness ==
    \E k \in Procs :
        prop[k].pc = "loop" /\ prop[k].v # prop[k].arg /\ prop[k].arg # Nil

\* The response of peer i to the Prepare of proposer k, were it served now.
PrepareRsp(k, i) == AcceptPrepare(instance[i][prop[k].seq], prop[k].t)

\* C14. Adoption: an OK response to Prepare that carries a non-empty value
\* is never passed over, so that after a Prepare round with a majority the
\* value sent with Accept is the value of the OK response with the highest
\* accepted ballot if any OK response carried a value, and the proposer's own
\* candidate only if none did.
C14_Adoption ==
    [][\A k \in Procs :
          /\ \A i \in peers :
                (PrepareCall(k, i) /\ PrepareRsp(k, i).code = ErrOK
                                   /\ PrepareRsp(k, i).value # Nil)
                    => ( /\ prop'[k].nvs # {}
                         /\ prop'[k].highest >= PrepareRsp(k, i).stamp )
          /\ (prop[k].pc = "prepare" /\ prop'[k].pc = "commit")
                => prop'[k].v \in (IF prop[k].nvs = {} THEN {prop[k].v} ELSE prop[k].nvs)]_vars

\* C15. Accept on a missing instance: when Accept(seq, value, ballot) is
\* served at a peer that holds no instance for seq, the peer replies OK and
\* creates the instance with that value and with the ballot as both promised
\* and accepted ballot, so that a Prepare served next reports the pair
\* (value, ballot).
C15_AcceptMissing ==
    [][\A k \in Procs, i \in peers :
          (CommitCall(k, i) /\ instance[i][prop[k].seq] = Absent)
              => /\ prop'[k].agreed = prop[k].agreed + 1
                 /\ instance'[i][prop[k].seq] =
                        PaxosInst(StateUndecided, prop[k].v, prop[k].t, prop[k].t)
                 /\ LET r == AcceptPrepare(instance'[i][prop[k].seq], prop[k].t)
                    IN  r.value = prop[k].v /\ r.stamp = prop[k].t]_vars

\* The highest promisedBallot peer i has held for s, in the entry of its table
\* or in an entry Min has deleted. On a network that loses nothing a peer
\* serves the Prepare of a round before its Accept, so that this is the
\* highest stamp of a Prepare for s the peer has answered OK.
Promised(i, s) ==
    IF instance[i][s] # Absent /\ instance[i][s].platest > forgot[i][s]
      THEN instance[i][s].platest
      ELSE forgot[i][s]

\* C16. Promise is kept: a peer that has replied OK to Prepare(seq, b) never
\* afterwards replies OK to a Prepare or an Accept for seq with a ballot
\* below b, also when the instance was decided and evicted by Min() and a
\* delayed message addresses it again.
C16_PromiseKept ==
    [][\A k \in Procs, i \in peers :
          /\ (PrepareCall(k, i) /\ PrepareRsp(k, i).code = ErrOK)
                => prop[k].t >= Promised(i, prop[k].seq)
          /\ ( /\ CommitCall(k, i)
                /\ AcceptCommit(instance[i][prop[k].seq], prop[k].v, prop[k].t).code = ErrOK )
                => prop[k].t >= Promised(i, prop[k].seq)]_vars

\* The response of peer i to the Accept of proposer k, were it served now.
CommitRsp(k, i) == AcceptCommit(instance[i][prop[k].seq], prop[k].v, prop[k].t)

\* Peer i holds an instance for the sequence number of proposer k whose
\* platest is strictly greater than the stamp of proposer k.
Outbid(k, i) ==
    /\ instance[i][prop[k].seq] # Absent
    /\ instance[i][prop[k].seq].platest > prop[k].t

\* C17. Rejection has no effect: a Prepare or an Accept is answered Rejected
\* exactly when the peer holds an instance whose promisedBallot is strictly
\* greater than the ballot of the request (an equal ballot is accepted), and
\* a handler that answers Rejected leaves every instance of every table and
\* the watermark arrays as they were.
C17_RejectionNoEffect ==
    [][\A k \in Procs, i \in peers :
          /\ PrepareCall(k, i) =>
                /\ PrepareRsp(k, i).code = (IF Outbid(k, i) THEN ErrRejected ELSE ErrOK)
                /\ Outbid(k, i) => (instance' = instance /\ done' = done)
          /\ CommitCall(k, i) =>
                /\ CommitRsp(k, i).code = (IF Outbid(k, i) THEN ErrRejected ELSE ErrOK)
                /\ Outbid(k, i) => (instance' = instance /\ done' = done)]_vars

\* A proposer has heard from every peer in its Accept phase, on a network
\* that loses nothing, and one of the responses was Rejected.
C17_Witness ==
    \E k \in Procs :
        /\ prop[k].pc = "commit" /\ prop[k].todo = {}
        /\ prop[k].agreed < Cardinality(peers)
        /\ lost = 0 /\ down = {}

\* The peers that have replied OK to Accept(s, v, b).
Ackers(s, v, b) == {i \in peers : <<i, s, v, b>> \in acks}

\* Strictly more than floor(N/2) peers have replied OK to Accept(s, v, b)
\* for one ballot b.
Chose(s, v) ==
    \E b \in 1 .. MaxStamp : Cardinality(Ackers(s, v, b)) > Cardinality(peers) \div 2

\* C18. Decided implies chosen: if a peer holds instance s as Decided with
\* the value v, then for one ballot b strictly more than floor(N/2) peers
\* have replied OK to Accept(s, v, b); and every Decide in flight or sent is
\* for a pair (s, v) that has gathered such a majority.
C18_DecidedChosen ==
    /\ \A i \in peers, s \in Seqs :
          instance[i][s].status = StateDecided => Chose(s, instance[i][s].value)
    /\ \A k \in Procs :
          prop[k].pc \in {"decide", "done"} => Chose(prop[k].seq, prop[k].v)
    /\ \A m \in orphans : m.kind = "decide" => Chose(m.seq, m.v)

\* C19. A peer's own watermark entry never decreases: however the Done
\* calls at a peer interleave with the Decide broadcasts of that peer's own
\* proposers, px.done[px.me] of the peer is non-decreasing.
C19_OwnEntryMonotone ==
    [][\A i \in peers : done'[i][i] >= done[i][i]]_vars

\* C20. Ballot ordering: every instance in a table has
\* acceptedBallot <= promisedBallot, and while an instance stays in a table
\* its promisedBallot never decreases, whichever of Prepare, Accept and
\* Decide is delivered.
C20_BallotOrder ==
    /\ [](\A i \in peers, s \in Seqs :
              instance[i][s] # Absent => instance[i][s].alatest <= instance[i][s].platest)
    /\ [][\A i \in peers, s \in Seqs :
              (instance[i][s] # Absent /\ instance'[i][s] # Absent)
                  => instance'[i][s].platest >= instance[i][s].platest]_vars

\* A peer holds a Decided instance with an accepted ballot whose promise a
\* later Prepare has raised, while the other peer has seen its instance
\* deleted and created again by a delayed message.
C20_Witness ==
    \E i \in peers, j \in peers, s \in Seqs :
        /\ instance[i][s].status = StateDecided
        /\ instance[i][s].alatest > 0
        /\ instance[i][s].platest > instance[i][s].alatest
        /\ forgot[j][s] > 0 /\ instance[j][s] # Absent
====
